---- MODULE Spec2Model ----
(***************************************************************************)
(* Model of the two scripts of the repository:                             *)
(*   changehmname.py  the batch renumbering renamer                        *)
(*   markexcel.py     the export of titled notes to a spreadsheet          *)
(*                                                                         *)
(* A string is a sequence of characters, a character a one-character       *)
(* string (one token, U4E2D, stands for a non-ASCII letter).  The          *)
(* directory is a function from the names present to the files: a file     *)
(* has an identity (id) and its content, a sequence of lines.  The file    *)
(* system is case-sensitive and the directory holds regular files only.    *)
(***************************************************************************)
EXTENDS Integers, Sequences, FiniteSets, TLC

VARIABLES
    fs,                  \* the directory: name -> [id, content]
    pc,                  \* changehmname.main: "start", "loop", "done"
    run,                 \* which invocation of changehmname.main this is
    ended,               \* how each earlier invocation ended: "done" or "killed"
    max_existing_number, \* changehmname.main's local
    target_files,        \* the part of target_files the for loop has not reached
    next_number,         \* changehmname.main's local
    log,                 \* the renames performed so far, in order
    dir0,                \* the directory as the current invocation found it
    orig,                \* the directory before the first invocation
    xpc,                 \* markexcel.main: "start", "loop", "saved"
    listing,             \* markexcel.main: what os.listdir has yet to yield
    rows,                \* markexcel.main: the worksheet's rows
    fpc,                 \* format_title_to_filename: "in", "out"
    title,               \* format_title_to_filename's argument
    out                  \* format_title_to_filename's result

vars == <<fs, pc, run, ended, max_existing_number, target_files, next_number,
          log, dir0, orig, xpc, listing, rows, fpc, title, out>>

renamerVars == <<fs, pc, run, ended, max_existing_number, target_files,
                 next_number, log, dir0, orig>>
exportVars == <<xpc, listing, rows>>
formatVars == <<fpc, title, out>>

----------------------------------------------------------------------------
(* Bounds of the model *)

\* the largest number of files in the initial directory
MaxFiles == 3
\* the number of invocations of changehmname.main in one behaviour
MaxRuns == 2
\* the longest title line given to format_title_to_filename on its own
MaxTitleLen == 3

----------------------------------------------------------------------------
(* Characters *)

DigitSeq == <<"0", "1", "2", "3", "4", "5", "6", "7", "8", "9">>
Digit == {DigitSeq[i] : i \in 1..10}
DigitVal(c) == (CHOOSE i \in 1..10 : DigitSeq[i] = c) - 1

Lower == {"a", "b", "c", "d", "e", "f", "g", "h", "i", "j", "k", "l", "m",
          "n", "o", "p", "q", "r", "s", "t", "u", "v", "w", "x", "y", "z"}
Upper == {"A", "B", "C", "D", "E", "F", "G", "H", "I", "J", "K", "L", "M",
          "N", "O", "P", "Q", "R", "S", "T", "U", "V", "W", "X", "Y", "Z"}
\* the class [a-zA-Z]
AsciiLetter == Lower \cup Upper
\* letters outside ASCII (one representative, U+4E2D)
OtherLetter == {"U4E2D"}
\* what str.strip() removes
Whitespace == {" ", "\t", "\n"}
\* the class [\\/:*?"<>|]
Illegal == {"\\", "/", ":", "*", "?", "\"", "<", ">", "|"}

md == <<".", "m", "d">>

----------------------------------------------------------------------------
(* String helpers (Python's str methods) *)

\* str.endswith
EndsWith(s, p) == Len(s) >= Len(p) /\ SubSeq(s, Len(s) - Len(p) + 1, Len(s)) = p

\* str.lstrip(chars)
RECURSIVE LStrip(_, _)
LStrip(s, chars) ==
    IF s # <<>> /\ Head(s) \in chars THEN LStrip(Tail(s), chars) ELSE s

\* str.rstrip(chars)
RECURSIVE RStrip(_, _)
RStrip(s, chars) ==
    IF s # <<>> /\ s[Len(s)] \in chars
    THEN RStrip(SubSeq(s, 1, Len(s) - 1), chars) ELSE s

\* str.strip()
Strip(s) == RStrip(LStrip(s, Whitespace), Whitespace)

\* str.replace(' ', '-')
ReplaceSpaces(s) == [i \in 1..Len(s) |-> IF s[i] = " " THEN "-" ELSE s[i]]

\* faulty variant: the class without the forward slash
RemoveIllegalNoSlash(s) == SelectSeq(s, LAMBDA c : c \notin Illegal \ {"/"})

\* re.sub(r'[\\/:*?"<>|]', '', s)
RemoveIllegal(s) == SelectSeq(s, LAMBDA c : c \notin Illegal)

\* s.rsplit(sep, 1)[0]: what precedes the last occurrence of sep, or s
RSplitFirst(s, sep) ==
    LET at == {i \in 1..(Len(s) - Len(sep) + 1) :
                  SubSeq(s, i, i + Len(sep) - 1) = sep}
    IN  IF at = {} THEN s
        ELSE SubSeq(s, 1, (CHOOSE i \in at : \A j \in at : j <= i) - 1)

\* str(n) for n >= 0
RECURSIVE Str(_)
Str(n) == IF n < 10 THEN <<DigitSeq[n + 1]>>
          ELSE Str(n \div 10) \o <<DigitSeq[(n % 10) + 1]>>

\* f"{n:02d}"
Format02d(n) == IF n < 10 THEN <<"0">> \o Str(n) ELSE Str(n)

\* the length of the leading run of decimal digits: the match of ^\d+
RECURSIVE DigitRun(_)
DigitRun(s) == IF s # <<>> /\ Head(s) \in Digit THEN 1 + DigitRun(Tail(s)) ELSE 0

\* int(digits)
RECURSIVE ParseInt(_)
ParseInt(s) == IF s = <<>> THEN 0
          ELSE 10 * ParseInt(SubSeq(s, 1, Len(s) - 1)) + DigitVal(s[Len(s)])

\* os.path.basename
Basename(s) ==
    LET at == {i \in 1..Len(s) : s[i] = "/"}
    IN  IF at = {} THEN s
        ELSE SubSeq(s, (CHOOSE i \in at : \A j \in at : j <= i) + 1, Len(s))

\* os.path.splitext(s)[0]: the last dot splits, unless only dots precede it
SplitextRoot(s) ==
    LET at == {i \in 1..Len(s) : s[i] = "."}
        last == CHOOSE i \in at : \A j \in at : j <= i
    IN  IF at = {} \/ (\A j \in 1..(last - 1) : s[j] = ".") THEN s
        ELSE SubSeq(s, 1, last - 1)

----------------------------------------------------------------------------
(* changehmname.py *)

format_title_to_filename(t) ==
    RemoveIllegal(ReplaceSpaces(Strip(LStrip(t, {"#"}))))

untitled == <<"u", "n", "t", "i", "t", "l", "e", "d">>

\* content is the file's sequence of lines
RECURSIVE get_first_non_empty_line(_)
get_first_non_empty_line(content) ==
    IF content = <<>> THEN untitled
    ELSE IF Strip(Head(content)) # <<>> THEN Strip(Head(content))
    ELSE get_first_non_empty_line(Tail(content))

None == -1

extract_numeric_prefix(filename) ==
    IF DigitRun(filename) > 0
    THEN ParseInt(SubSeq(filename, 1, DigitRun(filename))) ELSE None

\* faulty variant: the class [A-Z] where the code has [a-zA-Z]
contains_letters_upper(filename) ==
    LET name_only == SplitextRoot(Basename(filename))
    IN  \E i \in 1..Len(name_only) : name_only[i] \in Upper

contains_letters(filename) ==
    LET name_only == SplitextRoot(Basename(filename))
    IN  \E i \in 1..Len(name_only) : name_only[i] \in AsciiLetter

\* line 30: the digit-prefixed .md entries of the directory
AllMdFiles(names) ==
    {f \in names : EndsWith(f, md) /\ DigitRun(f) > 0}

SetMax(S) == CHOOSE x \in S : \A y \in S : y <= x

\* faulty variant: the maximum over every file, the contains_letters test dropped
MaxExistingNumberAll(all_md_files) ==
    SetMax({0} \cup {extract_numeric_prefix(f) : f \in all_md_files})

\* faulty variant: the maximum is computed and not kept
MaxExistingNumberUnassigned(all_md_files) == 0

\* lines 33-38
MaxExistingNumber(all_md_files) ==
    SetMax({0} \cup {extract_numeric_prefix(f) :
                        f \in {g \in all_md_files : contains_letters(g)}})

\* line 43
TargetSet(all_md_files) == {f \in all_md_files : ~contains_letters(f)}

\* line 44: list.sort is stable and os.listdir's order is arbitrary, so the
\* result is any arrangement of the files in nondecreasing key order
SortedOrders(S) ==
    LET key == [f \in S |-> extract_numeric_prefix(f)]
        n == Cardinality(S)
    IN  {s \in [1..n -> S] :
            /\ \A i, j \in 1..n : i < j => s[i] # s[j]
            /\ \A i, j \in 1..n : i < j => key[s[i]] <= key[s[j]]}

\* faulty variant: the numbering starts at the maximum, not one past it
FirstNumberNoIncrement(m) == m

\* line 46
FirstNumber(m) == m + 1

\* line 53
NewFilename(n, formatted_title) ==
    Format02d(n) \o <<"-">> \o formatted_title \o md

\* lines 56-60: the name the while loop ends with and the counter it leaves
RECURSIVE CollisionLoop(_, _, _, _)
CollisionLoop(names, original_new_filename, new_filename, counter) ==
    IF new_filename \in names
    THEN CollisionLoop(names, original_new_filename,
                       RSplitFirst(original_new_filename, md)
                           \o <<"_">> \o Str(counter) \o md,
                       counter + 1)
    ELSE [name |-> new_filename, counter |-> counter]

\* faulty variant: the while loop left out
ResolveCollisionNoLoop(names, new_filename) ==
    [name |-> new_filename, counter |-> 1]

ResolveCollision(names, new_filename) ==
    CollisionLoop(names, new_filename, new_filename, 1)

\* os.rename: the file takes the new name, replacing a file that has it
Rename(dir, old, new) ==
    [n \in (DOMAIN dir \ {old}) \cup {new} |-> IF n = new THEN dir[old] ELSE dir[n]]

\* lines 30-48
Scan ==
    /\ pc = "start"
    /\ LET all_md_files == AllMdFiles(DOMAIN fs)
       IN  /\ max_existing_number' = MaxExistingNumber(all_md_files)
           /\ \E order \in SortedOrders(TargetSet(all_md_files)) :
                 target_files' = order
    /\ next_number' = FirstNumber(max_existing_number')
    /\ dir0' = fs
    /\ pc' = "loop"
    /\ UNCHANGED <<fs, run, ended, log, orig>>
    /\ UNCHANGED <<exportVars, formatVars>>

\* lines 51-62: what one iteration of the for loop does to the directory,
\* with the values it computes on the way
RenameOne(dir, filename, n) ==
    LET line == get_first_non_empty_line(dir[filename].content)
        formatted_title == format_title_to_filename(line)
        computed == NewFilename(n, formatted_title)
        found == ResolveCollision(DOMAIN dir, computed)
    IN  [fs |-> Rename(dir, filename, found.name),
         id |-> dir[filename].id,
         old |-> filename,
         title |-> formatted_title,
         number |-> n,
         computed |-> computed,
         new |-> found.name,
         suffixes |-> found.counter - 1,
         before |-> DOMAIN dir]

\* lines 50-64: one iteration of the for loop
RenameStep ==
    /\ pc = "loop"
    /\ target_files # <<>>
    /\ LET r == RenameOne(fs, Head(target_files), next_number)
       IN  /\ fs' = r.fs
           /\ log' = Append(log, [run |-> run, id |-> r.id, old |-> r.old,
                                  title |-> r.title, number |-> r.number,
                                  computed |-> r.computed, new |-> r.new,
                                  suffixes |-> r.suffixes, before |-> r.before])
    /\ target_files' = Tail(target_files)
    /\ next_number' = next_number + 1
    /\ UNCHANGED <<pc, run, ended, max_existing_number, dir0, orig>>
    /\ UNCHANGED <<exportVars, formatVars>>

\* the for loop is exhausted and main returns
Finish ==
    /\ pc = "loop"
    /\ target_files = <<>>
    /\ pc' = "done"
    /\ UNCHANGED <<fs, run, ended, max_existing_number, target_files,
                   next_number, log, dir0, orig>>
    /\ UNCHANGED <<exportVars, formatVars>>

\* the process is stopped between two renames and main is started again
Interrupt ==
    /\ pc = "loop"
    /\ run < MaxRuns
    /\ run' = run + 1
    /\ ended' = Append(ended, "killed")
    /\ pc' = "start"
    /\ UNCHANGED <<fs, max_existing_number, target_files, next_number, log,
                   dir0, orig>>
    /\ UNCHANGED <<exportVars, formatVars>>

\* main has returned and is started again
Rerun ==
    /\ pc = "done"
    /\ run < MaxRuns
    /\ run' = run + 1
    /\ ended' = Append(ended, "done")
    /\ pc' = "start"
    /\ UNCHANGED <<fs, max_existing_number, target_files, next_number, log,
                   dir0, orig>>
    /\ UNCHANGED <<exportVars, formatVars>>

\* lines 50-64: the for loop run to its end
RECURSIVE RunLoop(_, _, _)
RunLoop(dir, files, n) ==
    IF files = <<>> THEN dir
    ELSE RunLoop(RenameOne(dir, Head(files), n).fs, Tail(files), n + 1)

\* lines 29-64: the directories a call of main that is not stopped can leave
MainOutcomes(dir) ==
    LET all_md_files == AllMdFiles(DOMAIN dir)
    IN  {RunLoop(dir, order, FirstNumber(MaxExistingNumber(all_md_files))) :
            order \in SortedOrders(TargetSet(all_md_files))}

----------------------------------------------------------------------------
(* markexcel.py *)

\* the constant strings of markexcel.py, each kept as one token
GITHUB_PREFIX == <<"https://github.com/same4869/HarmonyNext-/blob/main/">>
Header == << <<"Title">>, <<"GitHub Link">> >>

is_target_md_file(filename) ==
    /\ EndsWith(filename, md)
    /\ DigitRun(filename) > 0
    /\ \E i \in 1..Len(filename) : filename[i] \in AsciiLetter

\* re.sub(r'^\d+-', '', filename)
StripNumberHyphen(filename) ==
    LET k == DigitRun(filename)
    IN  IF k > 0 /\ Len(filename) > k /\ filename[k + 1] = "-"
        THEN SubSeq(filename, k + 2, Len(filename)) ELSE filename

extract_title_without_prefix(filename) ==
    RSplitFirst(StripNumberHyphen(filename), md)

\* os.listdir yields the names in an arbitrary order
Listings(names) ==
    {s \in [1..Cardinality(names) -> names] :
        \A i, j \in 1..Cardinality(names) : i < j => s[i] # s[j]}

\* lines 20-25: the workbook with its header row, and the call of os.listdir
ExportStart ==
    /\ xpc = "start"
    /\ rows' = <<Header>>
    /\ \E order \in Listings(DOMAIN fs) : listing' = order
    /\ xpc' = "loop"
    /\ UNCHANGED <<renamerVars, formatVars>>

\* lines 25-30: one iteration of the for loop
ExportEntry ==
    /\ xpc = "loop"
    /\ listing # <<>>
    /\ LET filename == Head(listing)
       IN  rows' = IF is_target_md_file(filename)
                   THEN Append(rows, <<extract_title_without_prefix(filename),
                                       GITHUB_PREFIX \o filename>>)
                   ELSE rows
    /\ listing' = Tail(listing)
    /\ UNCHANGED <<xpc, renamerVars, formatVars>>

\* lines 32-34
ExportSave ==
    /\ xpc = "loop"
    /\ listing = <<>>
    /\ xpc' = "saved"
    /\ UNCHANGED <<listing, rows, renamerVars, formatVars>>

----------------------------------------------------------------------------
(* format_title_to_filename on its own *)

FormatAlphabet == Illegal \cup {"#", " ", "\t", "-", "a"}

RECURSIVE Strings(_, _)
Strings(alphabet, n) ==
    IF n = 0 THEN {<<>>}
    ELSE LET shorter == Strings(alphabet, n - 1)
         IN  shorter \cup {Append(s, c) : s \in shorter, c \in alphabet}

\* lines 4-8
Format ==
    /\ fpc = "in"
    /\ out' = format_title_to_filename(title)
    /\ fpc' = "out"
    /\ UNCHANGED <<title, renamerVars, exportVars>>

----------------------------------------------------------------------------
(* The directories the model starts from *)

Foo == <<"F", "o", "o">>
Bar == <<"B", "a", "r">>

\* file contents: sequences of lines
TextFoo == << <<" ", "\n">>, <<"#", " ">> \o Foo \o <<"\n">> >>
TextBar == << <<"U4E2D", ":", " ">> \o Bar \o <<"\n">> >>
Text12 == << <<"1", "2", "\n">> >>
TextHash == << <<"#", "\n">> >>
TextOther == << <<"\n">>, <<"#", "U4E2D", "\n">>, Foo \o <<"\n">> >>
TextNone == << <<"\n">>, <<" ", "\t", "\n">> >>

File(name, content) == [name |-> name, content |-> content]

\* the files a directory is drawn from
FilePool ==
    { File(<<"1">> \o md, Text12),
      File(<<"1">> \o md, TextHash),
      File(<<"0", "1">> \o md, TextBar),
      File(<<"2">> \o md, TextNone),
      File(<<"3">> \o md, TextFoo),
      File(<<"0", "1", "-", "1", "2">> \o md, Text12),
      File(<<"0", "1", "-", "1", "2", "_", "1">> \o md, Text12),
      File(<<"0", "5", "-", "U4E2D">> \o md, TextOther),
      File(<<"0", "1", "-">> \o Foo \o md, TextFoo),
      File(<<"0", "2", "-">> \o Bar \o md, TextBar),
      File(<<"9", "9", "-", "a">> \o md, <<>>),
      File(Foo \o md, TextFoo) }

\* every directory of at most MaxFiles files of the pool, no name twice
Directories ==
    {S \in SUBSET FilePool :
        /\ Cardinality(S) <= MaxFiles
        /\ \A f, g \in S : f.name = g.name => f = g}

\* the files of a directory get the identities 1, 2, ... in some fixed order
RECURSIVE Ids(_)
Ids(S) == IF S = {} THEN <<>>
          ELSE LET x == CHOOSE y \in S : TRUE IN Ids(S \ {x}) \o <<x>>

MakeFs(S) ==
    LET ids == Ids(S)
    IN  [n \in {f.name : f \in S} |->
            LET i == CHOOSE j \in 1..Len(ids) : ids[j].name = n
            IN  [id |-> i, content |-> ids[i].content]]

InitRenamer ==
    /\ pc = "start"
    /\ run = 1
    /\ ended = <<>>
    /\ max_existing_number = 0
    /\ target_files = <<>>
    /\ next_number = 0
    /\ log = <<>>
    /\ dir0 = fs
    /\ orig = fs

InitExport ==
    /\ xpc = "start"
    /\ listing = <<>>
    /\ rows = <<>>

InitFormat ==
    /\ fpc = "in"
    /\ title = <<>>
    /\ out = <<>>

Init ==
    /\ \E S \in Directories : fs = MakeFs(S)
    /\ InitRenamer
    /\ InitExport
    /\ InitFormat

Next == Scan \/ RenameStep \/ Finish \/ Interrupt \/ Rerun

Spec == Init /\ [][Next]_vars

\* markexcel.main run on a directory
NextExport == ExportStart \/ ExportEntry \/ ExportSave

SpecExport == Init /\ [][NextExport]_vars

\* format_title_to_filename applied to every title of at most MaxTitleLen
\* characters
InitFormatInputs ==
    /\ fs = MakeFs({})
    /\ InitRenamer
    /\ InitExport
    /\ fpc = "in"
    /\ title \in Strings(FormatAlphabet, MaxTitleLen)
    /\ out = <<>>

NextFormat == Format

SpecFormat == InitFormatInputs /\ [][NextFormat]_vars

----------------------------------------------------------------------------
(* Vocabulary of the properties *)

\* the renames of the invocation of main that is under way
CurrentRenames == SelectSeq(log, LAMBDA e : e.run = run)

HasCharIn(s, class) == \E i \in 1..Len(s) : s[i] \in class

\* the name without the .md extension
StemOf(name) ==
    IF EndsWith(name, md) THEN SubSeq(name, 1, Len(name) - Len(md)) ELSE name

DigitPrefixedMd(name) == EndsWith(name, md) /\ DigitRun(name) > 0

\* the digit-prefixed .md files whose stem has a character of the class
LetterFiles(names, class) ==
    {f \in names : DigitPrefixedMd(f) /\ HasCharIn(StemOf(f), class)}

MaxLetterPrefix(names, class) ==
    SetMax({0} \cup {extract_numeric_prefix(f) : f \in LetterFiles(names, class)})

\* the form NN-title.md the renamer gives
NNTitleForm(name) ==
    /\ EndsWith(name, md)
    /\ DigitRun(name) >= 2
    /\ Len(name) > DigitRun(name)
    /\ name[DigitRun(name) + 1] = "-"

Ids0(dir) == {dir[n].id : n \in DOMAIN dir}

----------------------------------------------------------------------------
(* C1 *)

\* C1: every rename of a run is onto a name absent from the directory at
\* that moment, so no file is overwritten: the directory holds the same
\* files, and as many, as when the run began.
C1NoOverwrite ==
    /\ LET cur == CurrentRenames
       IN  \A i \in DOMAIN cur : cur[i].new \notin cur[i].before
    /\ Cardinality(DOMAIN fs) = Cardinality(DOMAIN dir0)
    /\ Ids0(fs) = Ids0(dir0)

\* a finished run in which the collision loop went round twice for one file
C1Witness ==
    /\ pc = "done"
    /\ \E i \in DOMAIN log : log[i].run = run /\ log[i].suffixes >= 2

----------------------------------------------------------------------------
(* C2 *)

FilesKept(class) ==
    \A n \in DOMAIN dir0 :
        HasCharIn(StemOf(n), class) =>
            n \in DOMAIN fs /\ fs[n].id = dir0[n].id

\* C2 as stated: no file whose stem contains an alphabetic character (of
\* any script) is renamed; each is present under its original name.
C2Original == FilesKept(AsciiLetter \cup OtherLetter)

\* C2 amended: no file whose stem contains an ASCII letter (a-z, A-Z) is
\* renamed; each is present under its original name throughout the run.
C2AsciiKept == FilesKept(AsciiLetter)

\* a finished run that renamed a file beside a digit-prefixed titled note
C2Witness ==
    /\ pc = "done"
    /\ CurrentRenames # <<>>
    /\ \E n \in DOMAIN dir0 :
          DigitPrefixedMd(n) /\ HasCharIn(StemOf(n), AsciiLetter) /\ n \in DOMAIN fs

----------------------------------------------------------------------------
(* C3 *)

Numbering(class) ==
    pc \in {"loop", "done"} =>
        LET cur == CurrentRenames
            n == Len(cur)
            lettered == LetterFiles(DOMAIN dir0, class)
            M == SetMax({0} \cup {extract_numeric_prefix(f) : f \in lettered})
            was == [k \in 1..n |-> extract_numeric_prefix(cur[k].old)]
            got == [k \in 1..n |-> extract_numeric_prefix(cur[k].new)]
        IN  /\ {got[k] : k \in 1..n} = (M + 1)..(M + n)
            /\ \A i, j \in 1..n : i # j => got[i] # got[j]
            /\ \A i, j \in 1..n : was[i] < was[j] => got[i] < got[j]
            /\ \A k \in 1..n :
                  /\ got[k] > M
                  /\ \A f \in lettered : extract_numeric_prefix(f) # got[k]

\* C3 as stated: with M the largest numeric prefix among the digit-prefixed
\* .md files whose stem contains a letter (of any script), the renamed files
\* get the prefixes M+1 .. M+n, once each, in the order of their old
\* prefixes, all above M and none the prefix of a letter-containing file.
C3Original == Numbering(AsciiLetter \cup OtherLetter)

\* C3 amended: the same with M taken over the files whose stem contains an
\* ASCII letter (a-z, A-Z).
C3AsciiNumbering == Numbering(AsciiLetter)

\* a finished run that renamed two files of different old prefixes past a
\* titled note
C3Witness ==
    /\ pc = "done"
    /\ MaxLetterPrefix(DOMAIN dir0, AsciiLetter) >= 1
    /\ LET cur == CurrentRenames
       IN  /\ Len(cur) >= 2
           /\ extract_numeric_prefix(cur[1].old) < extract_numeric_prefix(cur[2].old)

----------------------------------------------------------------------------
(* C4 *)

\* C4: when main has run to its end and is run again, the second run renames
\* no file that is already in NN-title.md form, whatever the titles.
C4Idempotent ==
    \A j \in DOMAIN log :
        (log[j].run > 1 /\ ended[log[j].run - 1] = "done") =>
            ~NNTitleForm(log[j].old)

----------------------------------------------------------------------------
(* C5 *)

\* the sanitized title of rename e is the title part of a titled note that
\* was in the directory
TitleTaken(e) ==
    \E f \in LetterFiles(e.before, AsciiLetter) :
        extract_title_without_prefix(f) = e.title

\* C5 as stated: a candidate whose sanitized title equals the title part of
\* an existing titled file is given a name with a collision suffix _N (in
\* the scenario, 0X-Foo_1.md).
C5Original ==
    \A i \in DOMAIN log :
        TitleTaken(log[i]) =>
            /\ log[i].suffixes >= 1
            /\ log[i].new = Format02d(log[i].number) \o <<"-">> \o log[i].title
                               \o <<"_">> \o Str(log[i].suffixes) \o md

\* C5 amended: in a run, such a candidate is given the plain name NN-title.md, NN its
\* new number, which is absent from the directory, and no _N suffix (in the
\* scenario, 03-Foo.md).
C5PlainName ==
    LET cur == CurrentRenames
    IN  \A i \in DOMAIN cur :
            TitleTaken(cur[i]) =>
                /\ cur[i].suffixes = 0
                /\ cur[i].new = Format02d(cur[i].number) \o <<"-">> \o cur[i].title \o md
                /\ cur[i].new \notin cur[i].before

\* the scenario: 01-Foo.md and 02-Bar.md are there and 3.md, titled Foo, has
\* been renamed to 03-Foo.md
C5Witness ==
    \E i \in DOMAIN log :
        /\ {<<"0", "1", "-">> \o Foo \o md, <<"0", "2", "-">> \o Bar \o md}
              \subseteq log[i].before
        /\ log[i].old = <<"3">> \o md
        /\ log[i].title = Foo
        /\ log[i].new = <<"0", "3", "-">> \o Foo \o md

----------------------------------------------------------------------------
(* C6 *)

\* C6: the result of format_title_to_filename holds none of the nine
\* characters \ / : * ? " < > |
C6NoIllegal ==
    fpc = "out" =>
        \A i \in 1..Len(out) :
            out[i] \notin {"\\", "/", ":", "*", "?", "\"", "<", ">", "|"}

\* a title with a forward slash in it whose result is not empty
C6Witness ==
    /\ fpc = "out"
    /\ HasCharIn(title, {"/"})
    /\ out # <<>>

----------------------------------------------------------------------------
(* C7 *)

\* the directory entry a row of the sheet was made from
RowFile(row) == SubSeq(row[2], Len(GITHUB_PREFIX) + 1, Len(row[2]))

\* C7: every row below the header is for an entry that ends with .md, begins
\* with a digit and has a letter in its stem; 12.md and its like get no row.
C7OnlyTitled ==
    \A k \in 2..Len(rows) :
        /\ DigitPrefixedMd(RowFile(rows[k]))
        /\ HasCharIn(StemOf(RowFile(rows[k])), AsciiLetter)

----------------------------------------------------------------------------
(* C8 *)

\* C8: a file whose computed name NN-title.md is the name it has is not
\* renamed: no rename is performed for it and it gets no suffix.
C8SkipIdentical ==
    \A i \in DOMAIN log : log[i].computed # log[i].old

----------------------------------------------------------------------------
(* C9 *)

\* C9: when a run is stopped after some of its renames and main is run again
\* to its end, no file renamed before the stop is renamed again and the names
\* left are those a run that is not stopped leaves from the first directory.
C9Resume ==
    /\ \A i, j \in DOMAIN log :
          (log[j].run = log[i].run + 1 /\ ended[log[i].run] = "killed") =>
              log[j].id # log[i].id
    /\ (pc = "done" /\ run = 2 /\ ended[1] = "killed") =>
          DOMAIN fs \in {DOMAIN d : d \in MainOutcomes(orig)}

----------------------------------------------------------------------------
(* C10 *)

\* C10: in a run, a file whose sanitized title contains an ASCII letter never
\* enters the collision loop: its computed name NN-title.md is absent from the
\* directory when it is computed, and it is the name the file gets.
C10NoCollision ==
    LET cur == CurrentRenames
    IN  \A i \in DOMAIN cur :
            HasCharIn(cur[i].title, AsciiLetter) =>
                /\ cur[i].computed \notin cur[i].before
                /\ cur[i].new = cur[i].computed
                /\ cur[i].suffixes = 0

\* a finished run that gave a lettered title a three-digit number, past the
\* titled note 99-a.md
C10Witness ==
    /\ pc = "done"
    /\ \E i \in DOMAIN log :
          /\ HasCharIn(log[i].title, AsciiLetter)
          /\ log[i].number >= 100
          /\ log[i].before \cap LetterFiles(log[i].before, AsciiLetter) # {}

====
